---- MODULE Spec2Model ----
(***************************************************************************)
(* Streak aggregation of qyrn/streak-badge: computeAllStats of             *)
(* src/app/api/streak/route.ts, run once over a day list while the wall    *)
(* clock (new Date()) may advance between its statements.                  *)
(*                                                                         *)
(* A calendar date "YYYY-MM-DD" is its day number (1 = 2024-01-01); the    *)
(* fixed-width ISO strings compare lexicographically as the day numbers    *)
(* compare numerically.  An instant (a JS Date) is a number of clock ticks,*)
(* TicksPerDay of them in one UTC day.  The empty string "" is NoDate.     *)
(*                                                                         *)
(* SpecGet is the handler GET of the same file: MaxReqs requests run        *)
(* concurrently, suspended at their awaits, against one GitHub account of  *)
(* NumYears contribution years and the edge cache "streak-badge".          *)
(*                                                                         *)
(* SpecDate applies addDays to a Date of the UTC calendar (years, months   *)
(* and days as Date computes them) and then back; SpecStreaks runs         *)
(* computeStreaks of src/app/api/tryhackme/route.ts, the aggregation of    *)
(* the 370-day endpoint, over the same day lists.                          *)
(***************************************************************************)
EXTENDS Integers, Sequences, FiniteSets

\* ---------------------------------------------------------------- bounds
MaxLen == 2
MaxDate == 3
MaxCount == 1
MaxDrift == 1
TicksPerDay == 2
MaxReqs == 2
NumYears == 2
LookBack == 370
MaxDay == 426
MaxDelta == 2

NoDate == -1

Day(d, c) == [date |-> d, contributionCount |-> c]

Days == {Day(d, c) : d \in 1..MaxDate, c \in 0..MaxCount}

RECURSIVE SeqsUpTo(_, _)
SeqsUpTo(S, n) ==
  IF n = 0 THEN {<<>>}
  ELSE LET shorter == SeqsUpTo(S, n - 1)
       IN shorter \cup {Append(s, x) : s \in {t \in shorter : Len(t) = n - 1}, x \in S}

DayLists == SeqsUpTo(Days, MaxLen)

\* the worked scenario of the specification: Jan 1..Jan 6 2024, counts 1,1,0,1,1,1
ScenarioDays == <<Day(1, 1), Day(2, 1), Day(3, 0), Day(4, 1), Day(5, 1), Day(6, 1)>>
ScenarioNoon == 6 * TicksPerDay + (TicksPerDay \div 2)
ScenarioMidnight == 7 * TicksPerDay

Clocks == (1 * TicksPerDay)..((MaxDate + 3) * TicksPerDay - 1)

\* the single-record window of the specification: {2024-01-01, 5}, now on that date
SingleDay == <<Day(1, 5)>>

\* three-record windows beyond MaxLen: two active days around an empty one,
\* the same window out of order, and a window that delivers one date twice
TieDays == <<Day(1, 1), Day(2, 0), Day(3, 1)>>
ShuffledDays == <<Day(3, 1), Day(1, 0), Day(2, 1)>>
RepeatedDays == <<Day(1, 1), Day(2, 0), Day(2, 1)>>

Inputs == {<<l, t>> : l \in DayLists \cup {TieDays, ShuffledDays, RepeatedDays}, t \in Clocks}
          \cup {<<ScenarioDays, ScenarioNoon>>, <<ScenarioDays, ScenarioMidnight>>}
          \cup {<<SingleDay, t>> : t \in (1 * TicksPerDay)..(2 * TicksPerDay - 1)}

\* ------------------------------------------------------- date helpers
toUTCDate(t) == t \div TicksPerDay

\* slip: the day count is added to the timestamp itself
addDaysAsTicks(t, n) == t + n

addDays(t, n) == t + n * TicksPerDay

\* new Date(isoDate + "T00:00:00Z")
DateAtMidnight(d) == d * TicksPerDay

\* a.date.localeCompare(b.date) on fixed-width ISO dates
localeCompare(a, b) == IF a < b THEN -1 ELSE IF a = b THEN 0 ELSE 1

\* ------------------------------------------- the UTC calendar behind Date
\* InLeapYear, DaysInYear of the Date object
IsLeapYear(y) == (y % 4 = 0 /\ y % 100 # 0) \/ y % 400 = 0

DaysInYear(y) == IF IsLeapYear(y) THEN 366 ELSE 365

DaysInMonth(y, m) ==
  IF m = 2 THEN (IF IsLeapYear(y) THEN 29 ELSE 28)
  ELSE IF m \in {4, 6, 9, 11} THEN 30 ELSE 31

\* the day number of January 1 of year y (day 1 is 2024-01-01)
RECURSIVE DayFromYear(_)
DayFromYear(y) ==
  IF y = 2024 THEN 1
  ELSE IF y > 2024 THEN DayFromYear(y - 1) + DaysInYear(y - 1)
  ELSE DayFromYear(y + 1) - DaysInYear(y)

\* the day number of the first day of month m of year y
RECURSIVE DayFromMonth(_, _)
DayFromMonth(y, m) ==
  IF m = 1 THEN DayFromYear(y) ELSE DayFromMonth(y, m - 1) + DaysInMonth(y, m - 1)

CalendarYears == 2022..2027

YearFromTime(t) ==
  CHOOSE y \in CalendarYears :
    DayFromYear(y) <= toUTCDate(t) /\ toUTCDate(t) < DayFromYear(y + 1)

MonthFromTime(t) ==
  1 + Cardinality({m \in 2..12 : DayFromMonth(YearFromTime(t), m) <= toUTCDate(t)})

\* x.getUTCDate()
getUTCDate(t) == toUTCDate(t) - DayFromMonth(YearFromTime(t), MonthFromTime(t)) + 1

\* MakeDay(year, month, date): the date may lie outside the month
MakeDay(y, m, dt) == DayFromMonth(y, m) + dt - 1

\* x.setUTCDate(dt): MakeDate(MakeDay(year, month, dt), TimeWithinDay(t))
setUTCDate(t, dt) ==
  MakeDay(YearFromTime(t), MonthFromTime(t), dt) * TicksPerDay + (t % TicksPerDay)

\* d.toISOString().slice(0, 10) as <<year, month, date>>
toISODate(t) == <<YearFromTime(t), MonthFromTime(t), getUTCDate(t)>>

\* slip: the day of the month wraps around inside its month, without a carry
addDaysWithinMonth(t, n) ==
  LET len == DaysInMonth(YearFromTime(t), MonthFromTime(t))
  IN setUTCDate(t, ((getUTCDate(t) + n - 1) % len) + 1)

\* addDays on the calendar: const x = new Date(d); x.setUTCDate(x.getUTCDate() + days)
addDaysUTC(t, n) == setUTCDate(t, getUTCDate(t) + n)

\* ------------------------------------------------------- computeAllStats
\* [...daysAsc].sort(cmp): Array.prototype.sort is stable
RECURSIVE InsertByDate(_, _)
InsertByDate(s, r) ==
  IF s = <<>> THEN <<r>>
  ELSE IF localeCompare(s[Len(s)].date, r.date) <= 0 THEN Append(s, r)
  ELSE Append(InsertByDate(SubSeq(s, 1, Len(s) - 1), r), s[Len(s)])

RECURSIVE InsertionSort(_)
InsertionSort(s) ==
  IF s = <<>> THEN <<>>
  ELSE InsertByDate(InsertionSort(SubSeq(s, 1, Len(s) - 1)), s[Len(s)])

\* slip: the copy is never sorted
SortByDateOmitted(s) == s

\* const days = [...daysAsc].sort((a, b) => a.date.localeCompare(b.date))
SortByDate(s) == InsertionSort(s)

\* slip: each date is counted once, through its last record only
TotalOfDistinctDates(ds) ==
  LET lastOf == {i \in 1..Len(ds) : \A j \in 1..Len(ds) : ds[j].date = ds[i].date => j <= i}
      kept == [i \in 1..Len(ds) |-> IF i \in lastOf THEN ds[i].contributionCount ELSE 0]
      sum[i \in 0..Len(ds)] == IF i = 0 THEN 0 ELSE sum[i - 1] + kept[i]
  IN sum[Len(ds)]

\* slip: reduce without its seed, the first record is not added
TotalSkipsFirst(ds) ==
  LET sum[i \in 0..Len(ds)] ==
        IF i <= 1 THEN 0 ELSE sum[i - 1] + ds[i].contributionCount
  IN sum[Len(ds)]

\* days.reduce((s, d) => s + d.contributionCount, 0)
RECURSIVE Total(_)
Total(ds) ==
  IF ds = <<>> THEN 0
  ELSE Total(SubSeq(ds, 1, Len(ds) - 1)) + ds[Len(ds)].contributionCount

\* slip: the first record is taken whatever its count
FirstActiveIgnoringCount(ds, t) == IF ds = <<>> THEN toUTCDate(t) ELSE ds[1].date

\* days.find((d) => d.contributionCount > 0)?.date ?? toUTCDate(new Date())
FirstActive(ds, t) ==
  LET hits == {i \in 1..Len(ds) : ds[i].contributionCount > 0}
  IN IF hits = {} THEN toUTCDate(t)
     ELSE ds[CHOOSE i \in hits : \A j \in hits : i <= j].date

\* let max = 0; let run = 0; let runStart = ""; let bestStart = ""; let bestEnd = "";
ScanInit == [max |-> 0, run |-> 0, runStart |-> NoDate, bestStart |-> NoDate, bestEnd |-> NoDate]

\* slip: the maximum is compared and taken before the counter is advanced
ScanBodyMaxBeforeIncrement(st, d) ==
  IF d.contributionCount > 0
  THEN LET rs == IF st.run = 0 THEN d.date ELSE st.runStart
           r == st.run + 1
       IN IF st.run > st.max
          THEN [max |-> st.run, run |-> r, runStart |-> rs, bestStart |-> rs, bestEnd |-> d.date]
          ELSE [st EXCEPT !.run = r, !.runStart = rs]
  ELSE [st EXCEPT !.run = 0, !.runStart = NoDate]

\* slip: a run of one record does not count as a streak yet
ScanBodySingleNoStreak(st, d) ==
  IF d.contributionCount > 0
  THEN LET rs == IF st.run = 0 THEN d.date ELSE st.runStart
           r == st.run + 1
       IN IF r > 1 /\ r > st.max
          THEN [max |-> r, run |-> r, runStart |-> rs, bestStart |-> rs, bestEnd |-> d.date]
          ELSE [st EXCEPT !.run = r, !.runStart = rs]
  ELSE [st EXCEPT !.run = 0, !.runStart = NoDate]

\* slip: run >= max, so a later run of equal length replaces the best
ScanBodyTieLater(st, d) ==
  IF d.contributionCount > 0
  THEN LET rs == IF st.run = 0 THEN d.date ELSE st.runStart
           r == st.run + 1
       IN IF r >= st.max
          THEN [max |-> r, run |-> r, runStart |-> rs, bestStart |-> rs, bestEnd |-> d.date]
          ELSE [st EXCEPT !.run = r, !.runStart = rs]
  ELSE [st EXCEPT !.run = 0, !.runStart = NoDate]

\* slip: a record with count 0 does not reset the run
ScanBodyNoReset(st, d) ==
  IF d.contributionCount > 0
  THEN LET rs == IF st.run = 0 THEN d.date ELSE st.runStart
           r == st.run + 1
       IN IF r > st.max
          THEN [max |-> r, run |-> r, runStart |-> rs, bestStart |-> rs, bestEnd |-> d.date]
          ELSE [st EXCEPT !.run = r, !.runStart = rs]
  ELSE st

\* slip: runStart is set only while it is empty and a zero day does not clear it
ScanBodyStaleStart(st, d) ==
  IF d.contributionCount > 0
  THEN LET rs == IF st.runStart = NoDate THEN d.date ELSE st.runStart
           r == st.run + 1
       IN IF r > st.max
          THEN [max |-> r, run |-> r, runStart |-> rs, bestStart |-> rs, bestEnd |-> d.date]
          ELSE [st EXCEPT !.run = r, !.runStart = rs]
  ELSE [st EXCEPT !.run = 0]

\* the body of for (const d of days)
ScanBody(st, d) ==
  IF d.contributionCount > 0
  THEN LET rs == IF st.run = 0 THEN d.date ELSE st.runStart
           r == st.run + 1
       IN IF r > st.max
          THEN [max |-> r, run |-> r, runStart |-> rs, bestStart |-> rs, bestEnd |-> d.date]
          ELSE [st EXCEPT !.run = r, !.runStart = rs]
  ELSE [st EXCEPT !.run = 0, !.runStart = NoDate]

RECURSIVE ScanAll(_)
ScanAll(ds) ==
  IF ds = <<>> THEN ScanInit
  ELSE ScanBody(ScanAll(SubSeq(ds, 1, Len(ds) - 1)), ds[Len(ds)])

\* slip: the first record of a date is kept instead of the last
MapOfFirstWins(ds) ==
  [k \in {ds[i].date : i \in 1..Len(ds)} |->
     LET first == CHOOSE i \in 1..Len(ds) :
                    /\ ds[i].date = k
                    /\ \A j \in 1..Len(ds) : ds[j].date = k => i <= j
     IN ds[first].contributionCount]

\* new Map(days.map((d) => [d.date, d.contributionCount])): a later entry overwrites
MapOf(ds) ==
  [k \in {ds[i].date : i \in 1..Len(ds)} |->
     LET last == CHOOSE i \in 1..Len(ds) :
                   /\ ds[i].date = k
                   /\ \A j \in 1..Len(ds) : ds[j].date = k => j <= i
     IN ds[last].contributionCount]

\* map.get(key) ?? 0
MapGet(m, key) == IF key \in DOMAIN m THEN m[key] ELSE 0

\* let currentEnd = toUTCDate(new Date())
AnchorToday(t) == toUTCDate(t)

\* slip: the anchor never falls back to yesterday
AnchorWithoutFallback(m, end, t) == end

\* if ((map.get(currentEnd) ?? 0) === 0) currentEnd = toUTCDate(addDays(new Date(), -1))
AnchorFallback(m, end, t) ==
  IF MapGet(m, end) = 0 THEN toUTCDate(addDays(t, -1)) ELSE end

\* days[0]?.date
FirstDate(ds) == IF ds = <<>> THEN NoDate ELSE ds[1].date

\* let current = 0; let currentStart = currentEnd; dt = new Date(currentEnd + "T00:00:00Z")
WalkInit(end) == [dt |-> DateAtMidnight(end), current |-> 0, currentStart |-> end, stop |-> FALSE]

\* slip: currentStart is taken from dt after it has stepped back
WalkBodyStartAfterStep(w, m, ds) ==
  LET key == toUTCDate(w.dt)
      c == MapGet(m, key)
  IN IF c > 0
     THEN IF key = FirstDate(ds)
          THEN [w EXCEPT !.current = w.current + 1, !.currentStart = key, !.stop = TRUE]
          ELSE [w EXCEPT !.current = w.current + 1,
                         !.currentStart = toUTCDate(addDays(w.dt, -1)),
                         !.dt = addDays(w.dt, -1)]
     ELSE [w EXCEPT !.stop = TRUE]

\* slip: the day is counted before its count is tested
WalkBodyCountFirst(w, m, ds) ==
  LET key == toUTCDate(w.dt)
      c == MapGet(m, key)
  IN IF c > 0 /\ key # FirstDate(ds)
     THEN [w EXCEPT !.current = w.current + 1, !.currentStart = key,
                    !.dt = addDays(w.dt, -1)]
     ELSE [w EXCEPT !.current = w.current + 1, !.currentStart = key, !.stop = TRUE]

\* slip: the loop tests the left edge of the window before it counts the day
WalkBodyStopBeforeFirst(w, m, ds) ==
  LET key == toUTCDate(w.dt)
      c == MapGet(m, key)
  IN IF c > 0 /\ key # FirstDate(ds)
     THEN [w EXCEPT !.current = w.current + 1, !.currentStart = key,
                    !.dt = addDays(w.dt, -1)]
     ELSE [w EXCEPT !.stop = TRUE]

\* slip: a day without activity does not leave the loop, which spins on it
WalkBodySpin(w, m, ds) ==
  LET key == toUTCDate(w.dt)
      c == MapGet(m, key)
  IN IF c > 0
     THEN IF key = FirstDate(ds)
          THEN [w EXCEPT !.current = w.current + 1, !.currentStart = key, !.stop = TRUE]
          ELSE [w EXCEPT !.current = w.current + 1, !.currentStart = key,
                         !.dt = addDays(w.dt, -1)]
     ELSE w

\* slip: a date absent from the map is stepped over instead of ending the walk
WalkBodySkipsGaps(w, m, ds) ==
  LET key == toUTCDate(w.dt)
      c == MapGet(m, key)
  IN IF c > 0
     THEN IF key = FirstDate(ds)
          THEN [w EXCEPT !.current = w.current + 1, !.currentStart = key, !.stop = TRUE]
          ELSE [w EXCEPT !.current = w.current + 1, !.currentStart = key,
                         !.dt = addDays(w.dt, -1)]
     ELSE IF key \notin DOMAIN m /\ key > FirstDate(ds)
          THEN [w EXCEPT !.dt = addDays(w.dt, -1)]
          ELSE [w EXCEPT !.stop = TRUE]

\* slip: the break on the earliest date of the window is missing
WalkBodyNoFirstStop(w, m, ds) ==
  LET key == toUTCDate(w.dt)
      c == MapGet(m, key)
  IN IF c > 0
     THEN [w EXCEPT !.current = w.current + 1, !.currentStart = key,
                    !.dt = addDays(w.dt, -1)]
     ELSE [w EXCEPT !.stop = TRUE]

\* one iteration of the backward walk, with its two breaks and its dt = addDays(dt, -1)
WalkBody(w, m, ds) ==
  LET key == toUTCDate(w.dt)
      c == MapGet(m, key)
  IN IF c > 0
     THEN IF key = FirstDate(ds)
          THEN [w EXCEPT !.current = w.current + 1, !.currentStart = key, !.stop = TRUE]
          ELSE [w EXCEPT !.current = w.current + 1, !.currentStart = key,
                         !.dt = addDays(w.dt, -1)]
     ELSE [w EXCEPT !.stop = TRUE]

RECURSIVE WalkAll(_, _, _)
WalkAll(w, m, ds) == IF w.stop THEN w ELSE WalkAll(WalkBody(w, m, ds), m, ds)

\* the returned object
Stats(tot, first, w, end, st) ==
  [total |-> tot, firstActive |-> first,
   current |-> w.current, currentStart |-> w.currentStart, currentEnd |-> end,
   max |-> st.max, maxStart |-> st.bestStart, maxEnd |-> st.bestEnd]

\* computeAllStats as a function of its argument and of the three readings of the clock
ComputeAllStats(daysAsc, t21, t45, t46) ==
  LET ds == SortByDate(daysAsc)
      m == MapOf(ds)
      end == AnchorFallback(m, AnchorToday(t45), t46)
  IN Stats(Total(ds), FirstActive(ds, t21), WalkAll(WalkInit(end), m, ds), end, ScanAll(ds))

\* computeStats(days, now) of the specification: every reading of the clock is now
ComputeStats(daysAsc, t) == ComputeAllStats(daysAsc, t, t, t)

\* ------------------------------------------------------------- state
VARIABLES input, clock, now, pc, days, total, firstActive, idx, scan, map,
          currentEnd, walk, result, tokenSet, reqs, cache,
          date, delta, moved, dpc, streaks

vars == <<input, clock, now, pc, days, total, firstActive, idx, scan, map,
          currentEnd, walk, result, tokenSet, reqs, cache,
          date, delta, moved, dpc, streaks>>

\* the state of computeAllStats and the state of the handler
avars == <<input, clock, now, pc, days, total, firstActive, idx, scan, map,
           currentEnd, walk, result>>

hvars == <<tokenSet, reqs, cache>>

EmptyMap == [k \in {} |-> 0]

\* a Date handed to addDays and what came back; the locals of computeStreaks
fvars == <<date, delta, moved, dpc, streaks>>

\* the locals of computeStreaks before it is called
NoStreaks ==
  [pc |-> "idle", map |-> EmptyMap, allDates |-> <<>>, dt |-> 0, i |-> 0,
   run |-> 0, current |-> 0, max |-> 0, total |-> 0]

\* neither addDays nor computeStreaks is being exercised
HelpersIdle ==
  /\ date = 0 /\ delta = 0 /\ moved = 0
  /\ dpc = "idle"
  /\ streaks = NoStreaks

NoStats == Stats(0, NoDate, WalkInit(NoDate), NoDate, ScanInit)

\* computeAllStats not yet called on daysAsc at instant t
Idle(daysAsc, t) ==
  /\ input = daysAsc /\ clock = t
  /\ now = clock
  /\ pc = "idle"
  /\ days = <<>>
  /\ total = 0
  /\ firstActive = NoDate
  /\ idx = 0
  /\ scan = ScanInit
  /\ map = EmptyMap
  /\ currentEnd = NoDate
  /\ walk = WalkInit(NoDate)
  /\ result = NoStats

\* ------------------------------------------------------ GET /api/streak
Reqs == 1..MaxReqs

\* contributionYears of the account, and the calendar GitHub holds for year y
Years == [i \in 1..NumYears |-> i]

Calendar(y) == <<Day(2 * y - 1, 1), Day(2 * y, IF y = 1 THEN 0 ELSE 1)>>

\* the instant of the requests: the last day of the last calendar
HandlerNow == (2 * NumYears) * TicksPerDay

\* what the GraphQL endpoint answers: data, a non-2xx status, or 200 with errors and data null
Outcomes == {"ok", "httpError", "noData"}

\* if (!r.ok) throw new Error(await r.text())
ghGraphQLThrows(outcome) == outcome = "httpError"

\* yearsRes?.data?.user?.contributionsCollection?.contributionYears ?? []
YearsOf(outcome) == IF outcome = "ok" THEN Years ELSE <<>>

\* (yrRes?.data?...?.contributionCalendar?.weeks ?? []).flatMap((w) => w.contributionDays)
DaysOf(outcome, y) == IF outcome = "ok" THEN Calendar(y) ELSE <<>>

\* perYear.flat(): the arrays in the order of years, whatever the order of completion
RECURSIVE FlatUpTo(_, _)
FlatUpTo(perYear, n) ==
  IF n = 0 THEN <<>> ELSE FlatUpTo(perYear, n - 1) \o perYear[n]

Flat(perYear) == FlatUpTo(perYear, NumYears)

\* renderCard: the texts of the card that depend on the statistics
renderCard(stats) ==
  [total |-> stats.total,
   totalRange |-> <<stats.firstActive, "Present">>,
   current |-> stats.current,
   curRange |-> <<stats.currentStart, stats.currentEnd>>,
   max |-> stats.max,
   maxRange |-> IF stats.maxStart # NoDate /\ stats.maxEnd # NoDate
                THEN <<stats.maxStart, stats.maxEnd>> ELSE <<>>]

TextResponse(code, text) == [status |-> code, type |-> "text", text |-> text, svg |-> <<>>]

\* new Response(body, {headers: {"Content-Type": "image/svg+xml; charset=utf-8", ...}})
SvgResponse(body) == [status |-> 200, type |-> "svg", text |-> "", svg |-> body]

\* the rejection of the handler's promise, answered 500 by the runtime
Rejected == TextResponse(500, "Internal Server Error")

NoResponse == TextResponse(0, "")

NoEntry == NoResponse

NewReq ==
  [pc |-> "new", user |-> "none", extra |-> FALSE, pending |-> {},
   perYear |-> [y \in 1..NumYears |-> <<>>], outcomes |-> [y \in 1..NumYears |-> "none"],
   overtaken |-> FALSE, sent |-> 0, matched |-> FALSE, hit |-> FALSE, resp |-> NoResponse]

\* const user = userParam || allowedUser
UserOf(userParam) == IF userParam = "none" THEN "allowed" ELSE userParam

Respond(q, response) == [q EXCEPT !.pc = "done", !.resp = response]

\* slip: the loop over the query parameters is missing
ReceiveAnyParameter(r, userParam, extraParam) ==
  /\ reqs[r].pc = "new"
  /\ LET q == [reqs[r] EXCEPT !.user = UserOf(userParam), !.extra = extraParam]
     IN reqs' = [reqs EXCEPT ![r] =
          IF ~tokenSet THEN Respond(q, TextResponse(500, "Missing GITHUB_TOKEN"))
          ELSE IF q.user # "allowed" THEN Respond(q, TextResponse(404, "Not found"))
          ELSE [q EXCEPT !.pc = "match"]]
  /\ UNCHANGED <<tokenSet, cache>>
  /\ UNCHANGED <<avars, fvars>>

\* lines 165-184: the synchronous checks, up to the first await
Receive(r, userParam, extraParam) ==
  /\ reqs[r].pc = "new"
  /\ LET q == [reqs[r] EXCEPT !.user = UserOf(userParam), !.extra = extraParam]
     IN reqs' = [reqs EXCEPT ![r] =
          IF ~tokenSet THEN Respond(q, TextResponse(500, "Missing GITHUB_TOKEN"))
          ELSE IF q.user # "allowed" THEN Respond(q, TextResponse(404, "Not found"))
          ELSE IF extraParam THEN Respond(q, TextResponse(400, "Bad request"))
          ELSE [q EXCEPT !.pc = "match"]]
  /\ UNCHANGED <<tokenSet, cache>>
  /\ UNCHANGED <<avars, fvars>>

\* slip: the years request is sent before the cached response is returned
CacheMatchAfterQuery(r) ==
  /\ reqs[r].pc = "match"
  /\ reqs' = [reqs EXCEPT ![r] =
       IF cache # NoEntry
       THEN [Respond(@, cache) EXCEPT !.matched = TRUE, !.hit = TRUE, !.sent = @ + 1]
       ELSE [@ EXCEPT !.pc = "years", !.matched = TRUE, !.sent = @ + 1]]
  /\ UNCHANGED <<tokenSet, cache>>
  /\ UNCHANGED <<avars, fvars>>

\* lines 186-193: cache.match, then the request for the contribution years
CacheMatch(r) ==
  /\ reqs[r].pc = "match"
  /\ reqs' = [reqs EXCEPT ![r] =
       IF cache # NoEntry THEN [Respond(@, cache) EXCEPT !.matched = TRUE, !.hit = TRUE]
       ELSE [@ EXCEPT !.pc = "years", !.matched = TRUE, !.sent = @ + 1]]
  /\ UNCHANGED <<tokenSet, cache>>
  /\ UNCHANGED <<avars, fvars>>

\* lines 189-219: the years arrive; one calendar request per year is sent
YearsResponse(r, outcome) ==
  /\ reqs[r].pc = "years"
  /\ reqs' = [reqs EXCEPT ![r] =
       IF ghGraphQLThrows(outcome) THEN Respond(@, Rejected)
       ELSE IF Len(YearsOf(outcome)) = 0
            THEN Respond(@, TextResponse(404, "No contribution years found"))
       ELSE [@ EXCEPT !.pc = "fetch",
                      !.pending = {YearsOf(outcome)[i] : i \in 1..Len(YearsOf(outcome))},
                      !.sent = @ + Len(YearsOf(outcome))]]
  /\ UNCHANGED <<tokenSet, cache>>
  /\ UNCHANGED <<avars, fvars>>

\* lines 199-218: the calendar of one year arrives, in any order (overtaken: an
\* earlier year was still pending); a throw rejects Promise.all, and what the
\* other years answered is dropped with it
YearResponse(r, y, outcome) ==
  /\ reqs[r].pc = "fetch"
  /\ y \in reqs[r].pending
  /\ reqs' = [reqs EXCEPT ![r] =
       IF ghGraphQLThrows(outcome)
       THEN [Respond(@, Rejected) EXCEPT
               !.pending = {},
               !.perYear = NewReq.perYear,
               !.outcomes = [z \in 1..NumYears |-> IF z = y THEN outcome ELSE "none"],
               !.overtaken = FALSE]
       ELSE [@ EXCEPT !.pending = @ \ {y},
                      !.perYear[y] = DaysOf(outcome, y),
                      !.outcomes[y] = outcome,
                      !.overtaken = @ \/ \E z \in reqs[r].pending : z < y]]
  /\ UNCHANGED <<tokenSet, cache>>
  /\ UNCHANGED <<avars, fvars>>

\* slip: the statistics are computed as soon as at most one calendar is missing
ComputeEarly(r) ==
  /\ reqs[r].pc = "fetch"
  /\ Cardinality(reqs[r].pending) <= 1
  /\ reqs' = [reqs EXCEPT ![r] =
       [@ EXCEPT !.pc = "put",
                 !.resp = SvgResponse(renderCard(ComputeStats(Flat(reqs[r].perYear), clock)))]]
  /\ UNCHANGED <<tokenSet, cache>>
  /\ UNCHANGED <<avars, fvars>>

\* lines 221-231: all calendars are there; statistics, card, response, cache.put is started
Compute(r) ==
  /\ reqs[r].pc = "fetch"
  /\ reqs[r].pending = {}
  /\ reqs' = [reqs EXCEPT ![r] =
       [@ EXCEPT !.pc = "put",
                 !.resp = SvgResponse(renderCard(ComputeStats(Flat(reqs[r].perYear), clock)))]]
  /\ UNCHANGED <<tokenSet, cache>>
  /\ UNCHANGED <<avars, fvars>>

\* lines 231-232: cache.put completes and the response is returned; the
\* handler's locals go with it
CachePut(r) ==
  /\ reqs[r].pc = "put"
  /\ cache' = reqs[r].resp
  /\ reqs' = [reqs EXCEPT ![r] =
       [@ EXCEPT !.pc = "done", !.perYear = NewReq.perYear, !.overtaken = FALSE]]
  /\ UNCHANGED tokenSet
  /\ UNCHANGED <<avars, fvars>>

InitGet ==
  /\ Idle(<<>>, HandlerNow)
  /\ HelpersIdle
  /\ tokenSet \in BOOLEAN
  /\ reqs = [r \in Reqs |-> NewReq]
  /\ cache = NoEntry

NextGet ==
  \/ \E r \in Reqs, u \in {"none", "allowed", "other"}, x \in BOOLEAN : Receive(r, u, x)
  \/ \E r \in Reqs : CacheMatch(r)
  \/ \E r \in Reqs, o \in Outcomes : YearsResponse(r, o)
  \/ \E r \in Reqs, y \in 1..NumYears, o \in Outcomes : YearResponse(r, y, o)
  \/ \E r \in Reqs : Compute(r)
  \/ \E r \in Reqs : CachePut(r)

SpecGet == InitGet /\ [][NextGet]_vars

Init ==
  /\ \E in \in Inputs : Idle(in[1], in[2])
  /\ HelpersIdle
  /\ tokenSet = TRUE
  /\ reqs = [r \in Reqs |-> NewReq]
  /\ cache = NoEntry

\* the wall clock advances while computeAllStats runs
Tick ==
  /\ pc \notin {"idle", "done"}
  /\ clock < now + MaxDrift
  /\ clock' = clock + 1
  /\ UNCHANGED <<input, now, pc, days, total, firstActive, idx, scan, map,
                 currentEnd, walk, result>>
  /\ UNCHANGED <<hvars, fvars>>

\* slip: daysAsc.sort(cmp) without the copy, the caller's list is sorted in place
CallSortInPlace ==
  /\ pc = "idle"
  /\ now' = clock
  /\ input' = SortByDate(input)
  /\ days' = input'
  /\ total' = Total(days')
  /\ pc' = "first"
  /\ UNCHANGED <<clock, firstActive, idx, scan, map, currentEnd, walk, result>>
  /\ UNCHANGED <<hvars, fvars>>

\* lines 18-20: entry, sorted copy, total
Call ==
  /\ pc = "idle"
  /\ now' = clock
  /\ days' = SortByDate(input)
  /\ total' = Total(days')
  /\ pc' = "first"
  /\ UNCHANGED <<input, clock, firstActive, idx, scan, map, currentEnd, walk, result>>
  /\ UNCHANGED <<hvars, fvars>>

\* line 21
FindFirstActive ==
  /\ pc = "first"
  /\ firstActive' = FirstActive(days, clock)
  /\ scan' = ScanInit
  /\ idx' = 1
  /\ pc' = "scan"
  /\ UNCHANGED <<input, clock, now, days, total, map, currentEnd, walk, result>>
  /\ UNCHANGED <<hvars, fvars>>

\* lines 29-42: one record of the ascending pass
ScanStep ==
  /\ pc = "scan"
  /\ idx <= Len(days)
  /\ scan' = ScanBody(scan, days[idx])
  /\ idx' = idx + 1
  /\ UNCHANGED <<input, clock, now, pc, days, total, firstActive, map, currentEnd,
                 walk, result>>
  /\ UNCHANGED <<hvars, fvars>>

\* lines 44-45: the map and the first reading of today
BuildMap ==
  /\ pc = "scan"
  /\ idx > Len(days)
  /\ map' = MapOf(days)
  /\ currentEnd' = AnchorToday(clock)
  /\ pc' = "anchor"
  /\ UNCHANGED <<input, clock, now, days, total, firstActive, idx, scan, walk, result>>
  /\ UNCHANGED <<hvars, fvars>>

\* lines 46-49: fall back to yesterday, start the walk
Anchor ==
  /\ pc = "anchor"
  /\ currentEnd' = AnchorFallback(map, currentEnd, clock)
  /\ walk' = WalkInit(AnchorFallback(map, currentEnd, clock))
  /\ pc' = "walk"
  /\ UNCHANGED <<input, clock, now, days, total, firstActive, idx, scan, map, result>>
  /\ UNCHANGED <<hvars, fvars>>

\* lines 51-61: one iteration of the backward walk
WalkStep ==
  /\ pc = "walk"
  /\ ~walk.stop
  /\ walk' = WalkBody(walk, map, days)
  /\ UNCHANGED <<input, clock, now, pc, days, total, firstActive, idx, scan, map,
                 currentEnd, result>>
  /\ UNCHANGED <<hvars, fvars>>

\* lines 63-72
Return ==
  /\ pc = "walk"
  /\ walk.stop
  /\ result' = Stats(total, firstActive, walk, currentEnd, scan)
  /\ pc' = "done"
  /\ UNCHANGED <<input, clock, now, days, total, firstActive, idx, scan, map,
                 currentEnd, walk>>
  /\ UNCHANGED <<hvars, fvars>>

Next ==
  \/ Tick
  \/ Call
  \/ FindFirstActive
  \/ ScanStep
  \/ BuildMap
  \/ Anchor
  \/ WalkStep
  \/ Return

Spec == Init /\ [][Next]_vars

\* the statements of computeAllStats, which is synchronous: nothing but the clock moves meanwhile
Step == Call \/ FindFirstActive \/ ScanStep \/ BuildMap \/ Anchor \/ WalkStep \/ Return

Done == pc = "done"

\* ------------------------------------------------------------ addDays
\* a Date on any day from 2024-01-01 to 2025-03-01, at any time of the day
DateInputs == {d * TicksPerDay + h : d \in 1..MaxDay, h \in 0..(TicksPerDay - 1)}

\* day counts: a few days either way, and a whole month either way
Deltas == (-MaxDelta..MaxDelta) \cup {-31, 31}

InitDate ==
  /\ Idle(<<>>, HandlerNow)
  /\ tokenSet = TRUE
  /\ reqs = [r \in Reqs |-> NewReq]
  /\ cache = NoEntry
  /\ date \in DateInputs
  /\ delta = 0 /\ moved = 0
  /\ dpc = "idle"
  /\ streaks = NoStreaks

\* lines 7-11: addDays(date, n) returns a new Date
AddDays(n) ==
  /\ dpc = "idle"
  /\ delta' = n
  /\ moved' = addDaysUTC(date, n)
  /\ dpc' = "moved"
  /\ UNCHANGED <<date, streaks>>
  /\ UNCHANGED <<avars, hvars>>

\* lines 7-11: addDays(moved, -n) on what the first call returned
AddBack ==
  /\ dpc = "moved"
  /\ moved' = addDaysUTC(moved, -delta)
  /\ dpc' = "back"
  /\ UNCHANGED <<date, delta, streaks>>
  /\ UNCHANGED <<avars, hvars>>

NextDate == (\E n \in Deltas : AddDays(n)) \/ AddBack

SpecDate == InitDate /\ [][NextDate]_vars

\* ------------------------------------------------------ computeStreaks
\* the dates from start to end, one per day: the loop dt = addDays(dt, 1) while dt <= end
DatesFromTo(start, end) ==
  [k \in 1..(IF start <= end THEN end - start + 1 ELSE 0) |-> start + k - 1]

\* days[0]?.date ?? toUTCDate(addDays(new Date(), -370))
StreaksStart(ds, t) == IF ds = <<>> THEN toUTCDate(addDays(t, -LookBack)) ELSE ds[1].date

\* slip: a date without contributions does not reset the run
StreaksScanBodyNoReset(st, c) ==
  IF c > 0
  THEN [st EXCEPT !.run = st.run + 1, !.max = IF st.run + 1 > st.max THEN st.run + 1 ELSE st.max]
  ELSE st

\* the body of for (const d of allDates)
StreaksScanBody(st, c) ==
  IF c > 0
  THEN [st EXCEPT !.run = st.run + 1, !.max = IF st.run + 1 > st.max THEN st.run + 1 ELSE st.max]
  ELSE [st EXCEPT !.run = 0]

InitStreaks ==
  /\ \E in \in Inputs : Idle(in[1], in[2])
  /\ tokenSet = TRUE
  /\ reqs = [r \in Reqs |-> NewReq]
  /\ cache = NoEntry
  /\ date = 0 /\ delta = 0 /\ moved = 0
  /\ dpc = "idle"
  /\ streaks = NoStreaks

\* lines 155-167: the map, the range of dates, the cursor
StreaksCall ==
  /\ streaks.pc = "idle"
  /\ streaks' = [streaks EXCEPT
       !.pc = "walk",
       !.map = MapOf(input),
       !.allDates = DatesFromTo(StreaksStart(input, clock), toUTCDate(clock)),
       !.dt = DateAtMidnight(AnchorFallback(MapOf(input), AnchorToday(clock), clock))]
  /\ UNCHANGED <<date, delta, moved, dpc>>
  /\ UNCHANGED <<avars, hvars>>

\* lines 169-177: one iteration of the backward loop
StreaksWalk ==
  /\ streaks.pc = "walk"
  /\ LET key == toUTCDate(streaks.dt)
         first == IF streaks.allDates = <<>> THEN NoDate ELSE streaks.allDates[1]
     IN streaks' =
          IF MapGet(streaks.map, key) > 0
          THEN IF key = first
               THEN [streaks EXCEPT !.current = @ + 1, !.pc = "scan", !.i = 1]
               ELSE [streaks EXCEPT !.current = @ + 1, !.dt = addDays(@, -1)]
          ELSE [streaks EXCEPT !.pc = "scan", !.i = 1]
  /\ UNCHANGED <<date, delta, moved, dpc>>
  /\ UNCHANGED <<avars, hvars>>

\* lines 180-188: one date of the forward loop
StreaksScan ==
  /\ streaks.pc = "scan"
  /\ streaks.i <= Len(streaks.allDates)
  /\ streaks' = [StreaksScanBody(streaks, MapGet(streaks.map, streaks.allDates[streaks.i]))
                   EXCEPT !.i = @ + 1]
  /\ UNCHANGED <<date, delta, moved, dpc>>
  /\ UNCHANGED <<avars, hvars>>

\* lines 190-191: the total, and the return
StreaksReturn ==
  /\ streaks.pc = "scan"
  /\ streaks.i > Len(streaks.allDates)
  /\ streaks' = [streaks EXCEPT !.total = Total(input), !.pc = "done"]
  /\ UNCHANGED <<date, delta, moved, dpc>>
  /\ UNCHANGED <<avars, hvars>>

NextStreaks == StreaksCall \/ StreaksWalk \/ StreaksScan \/ StreaksReturn

SpecStreaks == InitStreaks /\ [][NextStreaks]_vars

\* ------------------------------------------------ vocabulary of the claims
\* the UTC calendar day an instant falls in
CalendarDay(t) == CHOOSE d \in 0..t : d * TicksPerDay <= t /\ t < (d + 1) * TicksPerDay

\* the reference instant is the entry of the call
Today == CalendarDay(now)

Yesterday == Today - 1

\* every reading of the clock during the call falls on the day of the reference instant
SameDay == CalendarDay(clock) = Today

SetMax(S) == CHOOSE x \in S : \A y \in S : y <= x

SetMin(S) == CHOOSE x \in S : \A y \in S : x <= y

SumCounts(l) ==
  LET sum[i \in 0..Len(l)] == IF i = 0 THEN 0 ELSE sum[i - 1] + l[i].contributionCount
  IN sum[Len(l)]

\* the count of a date in a window: that of its last record, 0 without a record
CountOn(l, d) ==
  LET at == {i \in 1..Len(l) : l[i].date = d}
  IN IF at = {} THEN 0 ELSE l[SetMax(at)].contributionCount

\* the list sorted ascending by date (records of one date by count)
RECURSIVE SortedAsc(_)
SortedAsc(l) ==
  IF l = <<>> THEN <<>>
  ELSE LET Before(i, j) ==
             \/ l[i].date < l[j].date
             \/ l[i].date = l[j].date /\ l[i].contributionCount < l[j].contributionCount
             \/ l[i].date = l[j].date /\ l[i].contributionCount = l[j].contributionCount /\ i <= j
           m == CHOOSE i \in 1..Len(l) : \A j \in 1..Len(l) : Before(i, j)
       IN <<l[m]>> \o SortedAsc(SubSeq(l, 1, m - 1) \o SubSeq(l, m + 1, Len(l)))

IsPermuted(l) == l # SortedAsc(l)

\* records of one date carry one count
ConsistentDuplicates(l) ==
  \A i, j \in 1..Len(l) : l[i].date = l[j].date => l[i].contributionCount = l[j].contributionCount

HasDuplicateDate(l) == \E i, j \in 1..Len(l) : i < j /\ l[i].date = l[j].date

\* the list in which each date keeps only its last record
RECURSIVE KeepLastFrom(_, _)
KeepLastFrom(l, seen) ==
  IF l = <<>> THEN <<>>
  ELSE LET r == l[Len(l)]
           front == SubSeq(l, 1, Len(l) - 1)
       IN IF r.date \in seen THEN KeepLastFrom(front, seen)
          ELSE Append(KeepLastFrom(front, seen \cup {r.date}), r)

KeepLast(l) == KeepLastFrom(l, {})

\* length of the longest run of consecutive calendar days with count > 0
LongestCalendarRun(l) ==
  LET dates == {l[i].date : i \in 1..Len(l)}
      lens == {n \in 0..Cardinality(dates) :
                 n = 0 \/ \E d \in dates : \A k \in 0..(n - 1) : CountOn(l, d + k) > 0}
  IN SetMax(lens)

\* maximal blocks of consecutive records with count > 0, as index pairs
Runs(ds) ==
  {r \in (1..Len(ds)) \X (1..Len(ds)) :
     /\ r[1] <= r[2]
     /\ \A k \in r[1]..r[2] : ds[k].contributionCount > 0
     /\ r[1] = 1 \/ ds[r[1] - 1].contributionCount = 0
     /\ r[2] = Len(ds) \/ ds[r[2] + 1].contributionCount = 0}

RunLen(r) == r[2] - r[1] + 1

LongestRuns(ds) == {r \in Runs(ds) : \A q \in Runs(ds) : RunLen(q) <= RunLen(r)}

EarliestLongestRun(ds) == CHOOSE r \in LongestRuns(ds) : \A q \in LongestRuns(ds) : r[1] <= q[1]

\* -------------------------------------------------------------- claims
\* C1: the returned total is the sum of the counts of all records of the list,
\* and is the total of the same records listed in ascending order.
C1_TotalIsSum ==
  Done => /\ result.total = SumCounts(input)
          /\ result.total = SumCounts(SortedAsc(input))

C1_Witness ==
  /\ Done
  /\ IsPermuted(input)
  /\ \E i \in 1..Len(input) : input[i].contributionCount = 0
  /\ result.total >= 2

\* C2: the anchor currentEnd is today's UTC date when today's count in the
\* window is > 0 and yesterday's UTC date otherwise; with the records of the
\* scenario and now at Jan 7 00:00 the anchor is Jan 6 and the current streak
\* is the one obtained at Jan 6 noon.
C2_Anchor ==
  (Done /\ SameDay) =>
     /\ result.currentEnd = IF CountOn(input, Today) > 0 THEN Today ELSE Yesterday
     /\ (input = ScenarioDays /\ now = ScenarioMidnight) =>
           /\ result.currentEnd = 6
           /\ result.current = 3
           /\ result.current = ComputeStats(ScenarioDays, ScenarioNoon).current

C2_Witness ==
  /\ Done
  /\ SameDay
  /\ \E i \in 1..Len(input) : input[i].date = Today
  /\ CountOn(input, Today) = 0
  /\ CountOn(input, Yesterday) > 0
  /\ result.currentEnd = Yesterday
  /\ result.current > 0

\* C3 as stated: every permutation of a day list gives the StreakStats of the
\* list sorted ascending by date.
C3_OrderIndependent ==
  (Done /\ SameDay) => result = ComputeStats(SortedAsc(input), now)

\* C3 amended: every permutation of a day list in which the records of one
\* date carry the same count gives the StreakStats of the sorted list.
C3_OrderIndependentConsistent ==
  (Done /\ SameDay /\ ConsistentDuplicates(input)) =>
     result = ComputeStats(SortedAsc(input), now)

C3_Witness ==
  /\ Done
  /\ SameDay
  /\ ConsistentDuplicates(input)
  /\ IsPermuted(input)
  /\ Len(input) >= 3
  /\ result.max >= 2
  /\ result.current >= 1

\* C4: with several records for one date the whole result is that of the
\* list in which each date keeps only its last record.
C4_LastRecordWins ==
  (Done /\ SameDay) => result = ComputeStats(KeepLast(input), now)

\* C5: longestStreak is the length of the longest run of consecutive calendar
\* days with count > 0, a date missing from the window counting as 0.
C5_LongestCalendarRun ==
  Done => result.max = LongestCalendarRun(input)

\* C6: the result is a function of the day list and of the reference instant
\* only, whatever the wall clock does during the computation.
C6_FunctionOfNow ==
  Done => result = ComputeStats(input, now)

\* C7: firstActive is the earliest date of a record with count > 0, and
\* today's UTC date when no record has count > 0.
C7_FirstActive ==
  (Done /\ SameDay) =>
     LET active == {input[i].date : i \in {k \in 1..Len(input) : input[k].contributionCount > 0}}
     IN result.firstActive = IF active = {} THEN Today ELSE SetMin(active)

C7_Witness ==
  /\ Done
  /\ SameDay
  /\ IsPermuted(input)
  /\ \E i, j \in 1..Len(input) :
        /\ input[i].contributionCount = 0
        /\ input[j].contributionCount > 0
        /\ input[i].date < input[j].date
        /\ result.firstActive = input[j].date

\* C8: among the runs of maximal length the range returned is that of the
\* earliest one in ascending order; a later run replaces the best only when
\* it is strictly longer.
C8_EarliestLongest ==
  Done =>
     IF Runs(days) = {}
     THEN result.max = 0
     ELSE LET r == EarliestLongestRun(days)
          IN /\ result.max = RunLen(r)
             /\ result.maxStart = days[r[1]].date
             /\ result.maxEnd = days[r[2]].date

C8_Witness ==
  /\ Done
  /\ Cardinality(LongestRuns(days)) >= 2
  /\ result.maxEnd = days[1].date

\* C9: the empty day list gives total 0, currentStreak 0 and longestStreak 0.
C9_EmptyZeros ==
  (Done /\ input = <<>>) => (result.total = 0 /\ result.current = 0 /\ result.max = 0)

C9_Witness ==
  /\ Done
  /\ input = <<>>
  /\ result.total + result.current + result.max = 0

\* C10 as stated: for the empty day list every date field of the result is
\* today's UTC date.
C10_EmptyDatesToday ==
  (Done /\ SameDay /\ input = <<>>) =>
     /\ result.firstActive = Today
     /\ result.currentStart = Today
     /\ result.currentEnd = Today
     /\ result.maxStart = Today
     /\ result.maxEnd = Today

\* C10 amended: for the empty day list the first active date is today's UTC
\* date, the current streak starts and ends on yesterday's UTC date, and the
\* longest streak has the empty string for its start and end.
C10_EmptyDates ==
  (Done /\ SameDay /\ input = <<>>) =>
     /\ result.firstActive = Today
     /\ result.currentStart = Yesterday
     /\ result.currentEnd = Yesterday
     /\ result.maxStart = NoDate
     /\ result.maxEnd = NoDate

C10_Witness ==
  /\ Done
  /\ SameDay
  /\ input = <<>>
  /\ result.firstActive = Today
  /\ result.currentEnd = Yesterday

\* the shape of a StreakStats record
IsStreakStats(r) ==
  /\ DOMAIN r = {"total", "firstActive", "current", "currentStart", "currentEnd",
                 "max", "maxStart", "maxEnd"}
  /\ r.total \in Nat /\ r.current \in Nat /\ r.max \in Nat
  /\ r.firstActive \in Nat /\ r.currentStart \in Nat /\ r.currentEnd \in Nat
  /\ r.maxStart \in Nat \cup {NoDate} /\ r.maxEnd \in Nat \cup {NoDate}

\* C11: the aggregator is total: from every day list and every instant the
\* computation always has a next statement to run until it returns, and what
\* it returns is a StreakStats record.
C11_Total ==
  /\ ~Done => ENABLED <<Step>>_vars
  /\ Done => IsStreakStats(result)

C11_Witness ==
  /\ Done
  /\ IsPermuted(input)
  /\ HasDuplicateDate(input)
  /\ \E i \in 1..Len(input) : input[i].contributionCount = 0
  /\ \E i \in 1..Len(input) : input[i].date > Today /\ input[i].contributionCount > 0
  /\ IsStreakStats(result)

\* C12: a window of one record {D, c} with c > 0 (c = 5 in the specification)
\* and now on D gives currentStreak 1, longestStreak 1, total c, and both
\* streaks starting and ending on D.
C12_SingleDay ==
  (Done /\ SameDay /\ Len(input) = 1) =>
     LET d == input[1]
     IN (d.contributionCount > 0 /\ d.date = Today) =>
           /\ result.current = 1
           /\ result.max = 1
           /\ result.total = d.contributionCount
           /\ result.currentStart = d.date /\ result.currentEnd = d.date
           /\ result.maxStart = d.date /\ result.maxEnd = d.date

C12_Witness ==
  /\ Done
  /\ SameDay
  /\ input = <<Day(1, 5)>>
  /\ Today = 1
  /\ result.total = 5
  /\ result.current = 1

\* C13: Jan 1..Jan 6 with counts 1,1,0,1,1,1 and now = Jan 6 12:00 give
\* longestStreak 3 with range Jan 4..Jan 6 and currentStreak 3.
C13_Scenario ==
  (Done /\ SameDay /\ input = ScenarioDays /\ now = ScenarioNoon) =>
     /\ result.max = 3
     /\ result.maxStart = 4
     /\ result.maxEnd = 6
     /\ result.current = 3

C13_Witness ==
  /\ Done
  /\ SameDay
  /\ input = ScenarioDays
  /\ now = ScenarioNoon
  /\ result.max = 3
  /\ result.currentStart = 4

\* C14 as stated: the scenario of C13 returns total = 4.
C14_ScenarioTotalFour ==
  (Done /\ input = ScenarioDays /\ now = ScenarioNoon) => result.total = 4

\* C14 amended: the scenario of C13 returns total = 5, the sum 1+1+0+1+1+1.
C14_ScenarioTotal ==
  (Done /\ input = ScenarioDays /\ now = ScenarioNoon) => result.total = 5

C14_Witness ==
  /\ Done
  /\ input = ScenarioDays
  /\ now = ScenarioNoon
  /\ result.total = SumCounts(ScenarioDays)

\* a date of the current streak has an earlier record with count 0 before its
\* last record with count > 0
ZeroRecordInsideCurrent ==
  \E i, j \in 1..Len(input) :
     /\ i < j
     /\ input[i].date = input[j].date
     /\ input[i].contributionCount = 0
     /\ input[j].contributionCount > 0
     /\ result.currentStart <= input[i].date
     /\ input[i].date <= result.currentEnd

\* C15: currentStreak <= longestStreak is not guaranteed: a result with
\* currentStreak > longestStreak is returned (the witness), and it is returned
\* only for a list in which a date of the current streak has a record with
\* count 0 before its last record.
C15_CurrentMayExceedLongest ==
  (Done /\ result.current > result.max) => ZeroRecordInsideCurrent

C15_Witness ==
  /\ Done
  /\ result.current > result.max
  /\ result.max > 0

\* the day list GitHub holds for the account, all years merged
CompleteDays == Flat([y \in 1..NumYears |-> Calendar(y)])

\* C16: a failed calendar request, or a calendar response without data, makes
\* GET /api/streak answer a failure; a 200 answer never carries a badge
\* computed from a day list that a failed fetch left empty or partial.
C16_FailureSurfaced ==
  \A r \in Reqs :
     reqs[r].pc = "done" =>
        /\ (\E y \in 1..NumYears : reqs[r].outcomes[y] \in {"httpError", "noData"})
             => reqs[r].resp.status >= 400
        /\ reqs[r].resp.status = 200
             => reqs[r].resp.svg = renderCard(ComputeStats(CompleteDays, clock))

\* the counter run after the k-th record of the ascending pass
RunAfter(ds, k) ==
  LET zeros == {j \in 1..k : ds[j].contributionCount = 0}
  IN IF zeros = {} THEN k ELSE k - SetMax(zeros)

\* the best so far after the k-th record: its length and the record it ends on
BestAfter(ds, k) == SetMax({RunAfter(ds, j) : j \in 0..k})

BestEndAfter(ds, k) == SetMin({j \in 0..k : RunAfter(ds, j) = BestAfter(ds, k)})

\* C17: the longest streak comes from one ascending pass with a counter run:
\* after each record run is the number of records with count > 0 since the
\* last record with count 0, runStart is the date of the first of them, and
\* the best (length, start, end) is that of the first moment run reached its
\* maximum; the returned max and range are the best at the end of the pass.
C17_ScanPass ==
  /\ pc = "scan" =>
       LET k == idx - 1
           e == BestEndAfter(days, k)
       IN /\ scan.run = RunAfter(days, k)
          /\ scan.run > 0 => scan.runStart = days[k - scan.run + 1].date
          /\ scan.max = BestAfter(days, k)
          /\ scan.max > 0 => /\ scan.bestEnd = days[e].date
                             /\ scan.bestStart = days[e - scan.max + 1].date
  /\ Done =>
       LET n == Len(days)
           e == BestEndAfter(days, n)
       IN /\ result.max = BestAfter(days, n)
          /\ result.max > 0 => /\ result.maxEnd = days[e].date
                               /\ result.maxStart = days[e - result.max + 1].date

C17_Witness ==
  /\ pc = "scan"
  /\ idx = 4
  /\ days[1].contributionCount > 0
  /\ days[2].contributionCount = 0
  /\ days[3].contributionCount > 0
  /\ scan.run = 1
  /\ scan.runStart = days[3].date
  /\ scan.bestEnd = days[1].date

\* the number of consecutive calendar days, backward from end, with count > 0
BackwardRun(l, end) ==
  SetMax({n \in 0..Len(l) : \A k \in 0..(n - 1) : CountOn(l, end - k) > 0})

\* C18: the current streak is the number of consecutive calendar days, counted
\* backward from the anchor, whose count in the map is > 0 (an absent date
\* counts 0); no date before the earliest of the window is counted, and
\* currentStart is the last date counted.
C18_BackwardWalk ==
  Done =>
     /\ result.current = BackwardRun(input, result.currentEnd)
     /\ result.current > 0 =>
          /\ result.currentStart = result.currentEnd - result.current + 1
          /\ result.currentStart >= SetMin({input[i].date : i \in 1..Len(input)})
     /\ result.current = 0 => result.currentStart = result.currentEnd

C18_Witness ==
  /\ Done
  /\ HasDuplicateDate(input)
  /\ result.current = 2
  /\ result.currentStart = result.currentEnd - 1
  /\ CountOn(input, result.currentStart - 1) = 0

\* the dates without a record that lie between two records
GapDates(l) ==
  LET dates == {l[i].date : i \in 1..Len(l)}
  IN {g \in 0..(MaxDate + 6) : g \notin dates /\ \E a, b \in dates : a < g /\ g < b}

\* the maximal block of consecutive records with count > 0 that holds record i
RunHolding(ds, i) == CHOOSE r \in Runs(ds) : r[1] <= i /\ i <= r[2]

\* C19: when a calendar date is absent between two records with count > 0,
\* the longest-streak pass counts both records in one run, and the backward
\* walk of the current streak stops at the absent date.
C19_GapAsymmetry ==
  Done =>
     /\ \A i \in 1..(Len(days) - 1) :
          (/\ days[i].contributionCount > 0
           /\ days[i + 1].contributionCount > 0
           /\ days[i].date + 1 < days[i + 1].date)
          => /\ RunHolding(days, i) = RunHolding(days, i + 1)
             /\ result.max >= RunLen(RunHolding(days, i))
     /\ \A g \in GapDates(input) :
          result.current > 0 => ~(result.currentStart <= g /\ g <= result.currentEnd)

C19_Witness ==
  /\ Done
  /\ Len(days) = 2
  /\ days[1].contributionCount > 0
  /\ days[2].contributionCount > 0
  /\ days[1].date + 1 < days[2].date
  /\ result.max = 2
  /\ result.currentEnd = days[2].date
  /\ result.current = 1

\* C20: the backward walk ends: every iteration either leaves the loop or
\* counts one more date of the map and steps one day back, so it runs at most
\* once per date of the map; and the iteration that counts the earliest date
\* of the window leaves the loop without stepping to an earlier date.
C20_WalkEnds ==
  [][WalkStep =>
       /\ walk'.stop \/ (walk'.current = walk.current + 1 /\ walk'.dt < walk.dt)
       /\ walk'.current <= Cardinality(DOMAIN map)
       /\ (walk'.current = walk.current + 1 /\ walk'.currentStart = days[1].date)
            => (walk'.stop /\ walk'.dt = walk.dt)]_vars

C20_Witness ==
  /\ pc = "walk"
  /\ walk.stop
  /\ walk.current = 2
  /\ walk.currentStart = days[1].date
  /\ walk.dt = days[1].date * TicksPerDay

NoActiveRecord(l) == \A i \in 1..Len(l) : l[i].contributionCount = 0

\* C21: the longest streak is 0 exactly when no record of the list has a
\* count above 0, and then the current streak is 0 too; a current streak
\* above 0 comes with a longest streak above 0.
C21_LongestZero ==
  Done =>
     /\ result.max = 0 <=> NoActiveRecord(input)
     /\ NoActiveRecord(input) => result.current = 0
     /\ result.current > 0 => result.max > 0

C21_Witness ==
  /\ Done
  /\ Len(input) >= 2
  /\ NoActiveRecord(input)
  /\ \E i \in 1..Len(input) : input[i].date = Today
  /\ result.max = 0
  /\ result.current = 0

\* the request ran the aggregator itself: it answers 200 and not from the cache
Computed(r) ==
  \/ reqs[r].pc = "put"
  \/ reqs[r].pc = "done" /\ reqs[r].resp.status = 200 /\ ~reqs[r].hit

\* the day lists of the years merged year after year, for each way the
\* calendar requests can be answered (with data, or with none)
MergedDays(answers) ==
  LET answered(y) == IF answers[y] = "ok" THEN Calendar(y) ELSE <<>>
      upTo[n \in 0..NumYears] == IF n = 0 THEN <<>> ELSE upTo[n - 1] \o answered(n)
  IN upTo[NumYears]

\* the card of the statistics of the merged lists at the instant of the requests
CardOfAnswers ==
  [answers \in [1..NumYears -> {"ok", "noData"}] |->
     renderCard(ComputeStats(MergedDays(answers), HandlerNow))]

\* C22: the calendar requests of all years are in flight together; the
\* aggregator runs only when every one of them has been answered, and its
\* statistics are those of the answers merged year by year, whatever the
\* order in which the answers arrived.
C22_FetchOrder ==
  /\ clock = HandlerNow
  /\ \A r \in Reqs :
        /\ reqs[r].pc = "fetch" => reqs[r].sent = 1 + NumYears
        /\ Computed(r) =>
             /\ reqs[r].pending = {}
             /\ reqs[r].outcomes \in DOMAIN CardOfAnswers
             /\ reqs[r].resp.svg = CardOfAnswers[reqs[r].outcomes]
        /\ \A q \in Reqs :
             (Computed(r) /\ Computed(q) /\ reqs[r].outcomes = reqs[q].outcomes)
                => reqs[r].resp = reqs[q].resp

C22_Witness ==
  \E r, q \in Reqs :
     /\ Computed(r) /\ Computed(q)
     /\ reqs[r].overtaken /\ ~reqs[q].overtaken
     /\ \A y \in 1..NumYears : reqs[r].outcomes[y] = "ok" /\ reqs[q].outcomes[y] = "ok"
     /\ reqs[r].resp = reqs[q].resp

MonthLengths(y) ==
  LET feb == IF y % 400 = 0 \/ (y % 4 = 0 /\ y % 100 # 0) THEN 29 ELSE 28
  IN <<31, feb, 31, 30, 31, 30, 31, 31, 30, 31, 30, 31>>

\* the calendar date after, and the one before, <<year, month, day>>
DateAfter(ymd) ==
  IF ymd[3] < MonthLengths(ymd[1])[ymd[2]] THEN <<ymd[1], ymd[2], ymd[3] + 1>>
  ELSE IF ymd[2] < 12 THEN <<ymd[1], ymd[2] + 1, 1>>
  ELSE <<ymd[1] + 1, 1, 1>>

DateBefore(ymd) ==
  IF ymd[3] > 1 THEN <<ymd[1], ymd[2], ymd[3] - 1>>
  ELSE IF ymd[2] > 1 THEN <<ymd[1], ymd[2] - 1, MonthLengths(ymd[1])[ymd[2] - 1]>>
  ELSE <<ymd[1] - 1, 12, 31>>

\* the dates of the calendar, and their order
ValidDates ==
  {ymd \in (2023..2026) \X (1..12) \X (1..31) : ymd[3] <= MonthLengths(ymd[1])[ymd[2]]}

Earlier(a, b) ==
  \/ a[1] < b[1]
  \/ a[1] = b[1] /\ a[2] < b[2]
  \/ a[1] = b[1] /\ a[2] = b[2] /\ a[3] < b[3]

\* how many calendar days b lies after a (negative: before)
DaysFromTo(a, b) ==
  Cardinality({x \in ValidDates : Earlier(a, x) /\ ~Earlier(b, x)})
    - Cardinality({x \in ValidDates : Earlier(b, x) /\ ~Earlier(a, x)})

\* C24: addDays(d, k) falls on the calendar date k days after d's (before,
\* for a negative k), across the ends of months and years and over February
\* 29, at the same time of the day: the next date for k = 1, the previous
\* one for k = -1; adding k and then -k gives d back; and the Date passed in
\* keeps its value.
C24_AddDays ==
  /\ [](dpc = "moved" =>
          /\ toISODate(moved) \in ValidDates
          /\ DaysFromTo(toISODate(date), toISODate(moved)) = delta
          /\ delta = 1 => toISODate(moved) = DateAfter(toISODate(date))
          /\ delta = -1 => toISODate(moved) = DateBefore(toISODate(date))
          /\ moved % TicksPerDay = date % TicksPerDay
          /\ moved = addDays(date, delta))
  /\ [](dpc = "back" => moved = date)
  /\ [][date' = date]_vars

C24_Witness ==
  /\ dpc = "back"
  /\ delta = 1
  /\ toISODate(date) = <<2024, 2, 29>>
  /\ date % TicksPerDay # 0
  /\ moved = date

\* C25: when no two records of the list share a date, the current streak is
\* at most the longest streak.
C25_CurrentAtMostLongest ==
  (Done /\ ~HasDuplicateDate(input)) => result.current <= result.max

C25_Witness ==
  /\ Done
  /\ ~HasDuplicateDate(input)
  /\ IsPermuted(input)
  /\ Len(input) >= 3
  /\ result.current = 2
  /\ result.max = 2

\* C26: a current streak above 0 runs over exactly that many consecutive
\* calendar dates from currentStart to currentEnd, each with a count above 0
\* in the map; a current streak of 0 has currentStart = currentEnd, which is
\* yesterday's date.
C26_CurrentRange ==
  Done =>
     /\ result.current > 0 =>
          /\ result.currentEnd - result.currentStart + 1 = result.current
          /\ \A d \in result.currentStart..result.currentEnd : CountOn(input, d) > 0
     /\ result.current = 0 =>
          /\ result.currentStart = result.currentEnd
          /\ SameDay => result.currentEnd = Yesterday

C26_Witness ==
  /\ Done
  /\ SameDay
  /\ IsPermuted(input)
  /\ result.current = 2
  /\ result.currentEnd = Yesterday
  /\ result.currentStart = Yesterday - 1

\* the list is ascending by date without a repeated or a missing date, and
\* holds no date after today
ContiguousUpToToday(l) ==
  /\ \A k \in 1..(Len(l) - 1) : l[k + 1].date = l[k].date + 1
  /\ l # <<>> => l[Len(l)].date <= Today

\* C27: on a day list that is ascending, without repeated dates, without a
\* missing date between its first and last record and without a date after
\* today, computeStreaks returns the total, the current streak and the
\* longest streak that computeAllStats returns for the same instant.
C27_VariantsAgree ==
  (streaks.pc = "done" /\ ContiguousUpToToday(input)) =>
     /\ streaks.total = ComputeStats(input, now).total
     /\ streaks.current = ComputeStats(input, now).current
     /\ streaks.max = ComputeStats(input, now).max

C27_Witness ==
  /\ streaks.pc = "done"
  /\ ContiguousUpToToday(input)
  /\ Len(input) >= 3
  /\ input[Len(input)].date < Today
  /\ \E k \in 1..Len(input) : input[k].contributionCount = 0
  /\ streaks.current = 1
  /\ streaks.max = 1
  /\ streaks.total = 2
  /\ ComputeStats(input, now).current = 1

\* the request has arrived and the handler has run its first statements
Arrived(r) == reqs[r].pc # "new"

\* C28: a request reaches the cache or GitHub only when the token is set,
\* its user (the allowed one when the parameter is absent) is the allowed
\* user and its query has no parameter besides user; otherwise it is
\* answered at once: 500 without a token; with a token, 404 for another
\* user, 400 for another parameter, and one of the two for both.
C28_Guards ==
  \A r \in Reqs :
     /\ (reqs[r].matched \/ reqs[r].sent > 0) =>
          (tokenSet /\ reqs[r].user = "allowed" /\ ~reqs[r].extra)
     /\ (Arrived(r) /\ ~tokenSet) =>
          reqs[r].resp = TextResponse(500, "Missing GITHUB_TOKEN")
     /\ (Arrived(r) /\ tokenSet /\ reqs[r].user # "allowed" /\ ~reqs[r].extra) =>
          reqs[r].resp = TextResponse(404, "Not found")
     /\ (Arrived(r) /\ tokenSet /\ reqs[r].user = "allowed" /\ reqs[r].extra) =>
          reqs[r].resp = TextResponse(400, "Bad request")
     /\ (Arrived(r) /\ tokenSet /\ reqs[r].user # "allowed" /\ reqs[r].extra) =>
          reqs[r].resp \in {TextResponse(404, "Not found"), TextResponse(400, "Bad request")}

C28_Witness ==
  \E r, q \in Reqs :
     /\ reqs[r].pc = "done" /\ reqs[r].user = "allowed" /\ reqs[r].extra
     /\ reqs[r].resp.status = 400
     /\ ~reqs[r].matched /\ reqs[r].sent = 0
     /\ reqs[q].user = "allowed" /\ ~reqs[q].extra
     /\ reqs[q].matched /\ reqs[q].sent = 1 + NumYears

\* C29: whatever requests have run, concurrent ones that all missed the
\* cache included, an entry of the cache is a 200 SVG response carrying the
\* card of the statistics of the account's complete day list; no 400, 404 or
\* 500 response and no card of a computation that a fetch failed is stored.
C29_CacheEntries ==
  cache # NoEntry =>
     /\ cache.status = 200
     /\ cache.type = "svg"
     /\ cache.svg = renderCard(ComputeStats(CompleteDays, clock))

\* C30: a request that finds an entry in the cache is answered, in that very
\* step, with the stored response as it is; it has sent and will send
\* nothing to GitHub and never computes the statistics.
C30_CacheHit ==
  /\ [](\A r \in Reqs :
          reqs[r].hit => (reqs[r].pc = "done" /\ reqs[r].sent = 0 /\ reqs[r].pending = {}))
  /\ [][\A r \in Reqs :
          (reqs[r].pc = "match" /\ cache # NoEntry /\ reqs'[r] # reqs[r]) =>
             /\ reqs'[r].pc = "done"
             /\ reqs'[r].hit
             /\ reqs'[r].resp = cache
             /\ cache' = cache]_vars

C30_Witness ==
  \E r, q \in Reqs :
     /\ reqs[q].pc = "done" /\ Computed(q) /\ reqs[q].sent = 1 + NumYears
     /\ cache = reqs[q].resp
     /\ reqs[r].hit
     /\ reqs[r].sent = 0
     /\ reqs[r].resp = cache

TypeOK ==
  /\ pc \in {"idle", "first", "scan", "anchor", "walk", "done"}
  /\ clock >= now
  /\ Len(days) \in {0, Len(input)}
====
